---- MODULE Spec2Model ----
(***************************************************************************)
(* Model of ros/src/tl_detector/tl_detector.py (class TLDetector).         *)
(*                                                                         *)
(* Units.  Coordinates are integers in tenths of a distance unit, so that  *)
(* the fixed site stop coordinate (8.0, 16.2) is the integer pair          *)
(* (80, 162).  Time is an integer number of 0.1 time units.                *)
(*                                                                         *)
(* Python's None is the empty sequence <<>> and a present value v is the   *)
(* one-element sequence <<v>>.                                             *)
(***************************************************************************)
EXTENDS Integers, Sequences, FiniteSets, TLC

VARIABLES
  now,               \* rospy.get_time()
  site,              \* self.site   (config['is_site'])
  pose,              \* self.pose
  waypoints,         \* self.waypoints
  got_waypoints,     \* self.got_waypoints
  lights,            \* self.lights
  camera_image,      \* self.camera_image
  has_image,         \* self.has_image (attribute absent until the first accepted frame)
  last_image_time,   \* self.last_image_time
  processing_image,  \* self.processing_image
  state,             \* self.state
  last_state,        \* self.last_state
  last_wp,           \* self.last_wp
  state_count,       \* self.state_count
  pc,                \* position of the image_cb thread
  loc,               \* locals of image_cb / process_traffic_lights
  obs                \* observer: what the last camera frame did (no effect on the program)

stores   == <<pose, waypoints, got_waypoints, lights>>
adapter  == <<camera_image, has_image, last_image_time, processing_image>>
debounce == <<state, last_state, last_wp, state_count>>
vars     == <<now, site, stores, adapter, debounce, pc, loc, obs>>

----------------------------------------------------------------------------
(* Bounds of the model *)

MaxTime == 12      \* the clock stops here
MaxGap  == 2       \* the clock runs at most this far ahead of last_image_time

----------------------------------------------------------------------------
(* Program constants *)

STATE_COUNT_THRESHOLD == 3

RED     == 0       \* styx_msgs/TrafficLight.RED
YELLOW  == 1       \* styx_msgs/TrafficLight.YELLOW
GREEN   == 2       \* styx_msgs/TrafficLight.GREEN
UNKNOWN == 4       \* styx_msgs/TrafficLight.UNKNOWN

NO_WP == -1                          \* "no stop" waypoint
NO_LIGHT_STATE == 4                  \* the state returned with it
IMAGE_PERIOD == 1                    \* 0.1 time units
BIG_DIFF == 10000000                 \* 1e6 distance units
max_look_ahead_distance == 1000      \* 100.0 distance units
min_look_ahead_distance == 250       \* 25.0 distance units
ORIENT_THRESHOLD == 100              \* 1 (a product of two lengths)
FRONT_STEP == 10                     \* the "1 *" of x_in_front, y_in_front

None == <<>>
Some(v) == <<v>>

Pt(px, py) == [x |-> px, y |-> py]

SITE_STOP == Pt(80, 162)

stop_line_positions == << Pt(450, 0), Pt(380, 30), Pt(1400, 0) >>

Abs(n) == IF n < 0 THEN -n ELSE n

----------------------------------------------------------------------------
(* Inputs *)

Colors == {RED, YELLOW, GREEN, UNKNOWN}

\* A camera frame is known by what the classifier does with it: the colour
\* it returns, or a fault.
Frames == {[sees |-> c, ok |-> TRUE] : c \in Colors}
            \cup {[sees |-> UNKNOWN, ok |-> FALSE]}

\* yaw of the pose in quarter turns; cos and sin of it
Yaws == 0..3
Cos(q) == CASE q = 0 -> 1 [] q = 1 -> 0 [] q = 2 -> -1 [] OTHER -> 0
Sin(q) == CASE q = 0 -> 0 [] q = 1 -> 1 [] q = 2 -> 0 [] OTHER -> -1

PoseMsgs == { [x |-> 0, y |-> 0, yaw |-> 0],
              [x |-> 300, y |-> 0, yaw |-> 2] }

PathA   == << Pt(0, 50), Pt(400, 20), Pt(450, 0) >>
PathFar == << Pt(20000000, 0) >>
LaneMsgs == { PathA, PathFar }

LightNear == Pt(500, 0)
LightSide == Pt(400, 30)
LightFar  == Pt(1500, 0)
LightEdge == Pt(1000, 0)
LightMsgs == { << LightNear, LightSide >>, << LightFar, LightEdge, LightSide >> }

----------------------------------------------------------------------------
(* get_closest_waypoint *)

\* The result of a call: the exception it raised ("" when it returned) and
\* the value it returned.
Return(v)  == [exc |-> "", val |-> v]
Raise(e)   == [exc |-> e, val |-> None]

\* ClosestLoop replacing the candidate when either difference improves
RECURSIVE ClosestLoop_either(_, _, _, _, _, _)
ClosestLoop_either(wps, p, point, diff_x, diff_y, ind) ==
  IF point > Len(wps) THEN ind
  ELSE LET x == Abs(p.x - wps[point].x)
           y == Abs(p.y - wps[point].y)
       IN IF x < diff_x \/ y < diff_y
            THEN ClosestLoop_either(wps, p, point + 1, x, y, Some(point - 1))
            ELSE ClosestLoop_either(wps, p, point + 1, diff_x, diff_y, ind)

\* the loop of get_closest_waypoint from index `point` (1-based here) on;
\* ind is None while the local `ind` is unbound, else Some(0-based index)
RECURSIVE ClosestLoop(_, _, _, _, _, _)
ClosestLoop(wps, p, point, diff_x, diff_y, ind) ==
  IF point > Len(wps) THEN ind
  ELSE LET x == Abs(p.x - wps[point].x)
           y == Abs(p.y - wps[point].y)
       IN IF x < diff_x /\ y < diff_y
            THEN ClosestLoop(wps, p, point + 1, x, y, Some(point - 1))
            ELSE ClosestLoop(wps, p, point + 1, diff_x, diff_y, ind)

get_closest_waypoint(wpts, p) ==
  IF wpts /= None
    THEN LET ind == ClosestLoop(wpts[1], p, 1, BIG_DIFF, BIG_DIFF, None)
         IN IF ind = None THEN Raise("UnboundLocalError") ELSE Return(ind)
    ELSE Return(None)

----------------------------------------------------------------------------
(* get_light_state *)

\* light_classifier.get_classification on the stored frame
get_classification(img) ==
  IF img.ok THEN Return(Some(img.sees)) ELSE Raise("ClassifierError")

get_light_state(hi, img) ==
  IF hi = None THEN Raise("AttributeError")
  ELSE IF ~hi[1] THEN Return(Some(0))          \* False, which equals 0
  ELSE get_classification(img[1])

----------------------------------------------------------------------------
(* process_traffic_lights: the scan of the lights and the stop-line search *)

DistSq(ax, ay, bx, by) == (ax - bx) * (ax - bx) + (ay - by) * (ay - by)

\* d < bound for a distance d >= 0 given by its square
DistLess(dsq, bound) == (dsq \div bound) < bound
\* d > bound
DistMore(dsq, bound) == dsq > bound * bound

\* Qualifies with the bounds of the window included
Qualifies_closed(light, x, y, theta) ==
  LET light_distance_sq == DistSq(light.x, light.y, x, y)
      light_orient == light.x - x + light.y - y
      car_orient == FRONT_STEP * Cos(theta) + FRONT_STEP * Sin(theta)
  IN /\ light_distance_sq <= max_look_ahead_distance * max_look_ahead_distance
     /\ light_distance_sq >= min_look_ahead_distance * min_look_ahead_distance
     /\ car_orient * light_orient > ORIENT_THRESHOLD

Qualifies(light, x, y, theta) ==
  LET light_distance_sq == DistSq(light.x, light.y, x, y)
      light_orient == light.x - x + light.y - y
      x_in_front == x + FRONT_STEP * Cos(theta)
      y_in_front == y + FRONT_STEP * Sin(theta)
      car_orient == x_in_front - x + y_in_front - y
  IN /\ DistLess(light_distance_sq, max_look_ahead_distance)
     /\ DistMore(light_distance_sq, min_look_ahead_distance)
     /\ car_orient * light_orient > ORIENT_THRESHOLD

\* index in ls of the first light that qualifies, 0 if none does
RECURSIVE FirstQualifying(_, _, _, _, _)
FirstQualifying(ls, i, x, y, theta) ==
  IF i > Len(ls) THEN 0
  ELSE IF Qualifies(ls[i], x, y, theta) THEN i
  ELSE FirstQualifying(ls, i + 1, x, y, theta)

\* a and b are 1e6 or more apart on one axis, hence 1e6 or more apart
Far(a, b) == Abs(a.x - b.x) >= BIG_DIFF \/ Abs(a.y - b.y) >= BIG_DIFF

\* the stop-line loop: minimum is None while it is still 1e6, else the
\* square of minimum_light_to_line_distance (which is below 1e6).  An entry
\* 1e6 or more away on one axis is less than neither; its square is not
\* computed.
RECURSIVE StopLineLoop(_, _, _, _, _)
StopLineLoop(table, light, i, minimum, light_stop_pose) ==
  IF i > Len(table) THEN light_stop_pose
  ELSE LET dsq == DistSq(light.x, light.y, table[i].x, table[i].y)
           less == IF Far(light, table[i]) THEN FALSE
                   ELSE IF minimum = None THEN DistLess(dsq, BIG_DIFF)
                                          ELSE dsq < minimum[1]
       IN IF less
            THEN StopLineLoop(table, light, i + 1, Some(dsq), table[i])
            ELSE StopLineLoop(table, light, i + 1, minimum, light_stop_pose)

closest_stop_line(light) ==
  StopLineLoop(stop_line_positions, light, 1, None, Pt(0, 0))

\* ScanLights reporting RED (0) when no light qualifies
ScanLights_red(ls, x, y, theta, wpts, hi, img) ==
  LET i == FirstQualifying(ls, 1, x, y, theta)
  IN IF i = 0 THEN Return(<<NO_WP, RED>>)
     ELSE LET pred_state == get_light_state(hi, img)
              light_stop_wp == get_closest_waypoint(wpts, closest_stop_line(ls[i]))
          IN IF pred_state.exc /= "" THEN Raise(pred_state.exc)
             ELSE IF light_stop_wp.exc /= "" THEN Raise(light_stop_wp.exc)
             ELSE Return(<<light_stop_wp.val[1], pred_state.val[1]>>)

\* lines 203-254, non-site: the result of process_traffic_lights given the
\* pose snapshot read before
ScanLights(ls, x, y, theta, wpts, hi, img) ==
  LET i == FirstQualifying(ls, 1, x, y, theta)
  IN IF i = 0 THEN Return(<<NO_WP, NO_LIGHT_STATE>>)
     ELSE LET pred_state == get_light_state(hi, img)
              light_stop_wp == get_closest_waypoint(wpts, closest_stop_line(ls[i]))
          IN IF pred_state.exc /= "" THEN Raise(pred_state.exc)
             ELSE IF light_stop_wp.exc /= "" THEN Raise(light_stop_wp.exc)
             ELSE Return(<<light_stop_wp.val[1], pred_state.val[1]>>)

\* lines 242-254, site
SiteLight(wpts, hi, img) ==
  LET light_stop_wp == get_closest_waypoint(wpts, SITE_STOP)
      pred_state == get_light_state(hi, img)
  IN IF light_stop_wp.exc /= "" THEN Raise(light_stop_wp.exc)
     ELSE IF pred_state.exc /= "" THEN Raise(pred_state.exc)
     ELSE Return(<<light_stop_wp.val[1], pred_state.val[1]>>)

\* the number of calls of get_classification that get_light_state makes
\* (lines 166-178)
ClassifierCalls(hi) == IF hi = None THEN 0 ELSE IF ~hi[1] THEN 0 ELSE 1

\* lines 203-240: the light selected (its index in ls, 0 if none), and the
\* numbers of calls of the classifier (line 225) and of the stop-line
\* search with get_closest_waypoint (lines 227-239)
ScanCalls(ls, x, y, theta, hi, img) ==
  LET i == FirstQualifying(ls, 1, x, y, theta)
  IN IF i = 0 THEN [sel |-> 0, cls |-> 0, sll |-> 0]
     ELSE [sel |-> i, cls |-> ClassifierCalls(hi),
           sll |-> IF get_light_state(hi, img).exc /= "" THEN 0 ELSE 1]

\* lines 242-248: no light is selected from the registry, the stop-line
\* table is not searched; the classifier is called at line 247
SiteCalls(wpts, hi, img) ==
  [sel |-> -1,
   cls |-> IF get_closest_waypoint(wpts, SITE_STOP).exc /= ""
             THEN 0 ELSE ClassifierCalls(hi),
   sll |-> 0]

----------------------------------------------------------------------------
(* image_cb: the rate limiter and the debounce *)

\* Accepts with "at least" for "more than"
Accepts_atleast(now_time, busy, last_time) ==
  (busy = FALSE) /\ (now_time >= last_time + IMAGE_PERIOD)

\* line 91
Accepts(now_time, busy, last_time) ==
  (busy = FALSE) /\ (now_time > last_time + IMAGE_PERIOD)

\* CountReached, one reading early
CountReached_early(count) == count >= STATE_COUNT_THRESHOLD - 1

\* CountReached, one reading late
CountReached_late(count) == count > STATE_COUNT_THRESHOLD

\* line 114
CountReached(count) == count >= STATE_COUNT_THRESHOLD

\* PublishValue without the test of the colour
PublishValue_any(light_wp, st) == light_wp

\* line 120
PublishValue(light_wp, st) == IF st = RED THEN light_wp ELSE NO_WP

\* lines 111-125 on the fields d = [state, state_count, last_state, last_wp]:
\* the new fields (state_count after line 125), the branch taken and the
\* values published, in order

\* Branch1 without the reset of the counter
Branch1_noreset(d, light_wp, st) ==
  [state |-> st, state_count |-> d.state_count + 1,
   last_state |-> d.last_state, last_wp |-> d.last_wp,
   branch |-> 1, emit |-> << >>]

\* lines 112-113
Branch1(d, light_wp, st) ==
  [state |-> st, state_count |-> 0 + 1,
   last_state |-> d.last_state, last_wp |-> d.last_wp,
   branch |-> 1, emit |-> << >>]

\* lines 115-122
Branch2(d, light_wp, st) ==
  [state |-> d.state, state_count |-> d.state_count + 1,
   last_state |-> d.state, last_wp |-> PublishValue(light_wp, st),
   branch |-> 2, emit |-> << PublishValue(light_wp, st) >>]

\* Branch3 publishing the raw waypoint instead of last_wp
Branch3_raw(d, light_wp, st) ==
  [state |-> d.state, state_count |-> d.state_count + 1,
   last_state |-> d.last_state, last_wp |-> d.last_wp,
   branch |-> 3, emit |-> << light_wp >>]

\* line 124
Branch3(d, light_wp, st) ==
  [state |-> d.state, state_count |-> d.state_count + 1,
   last_state |-> d.last_state, last_wp |-> d.last_wp,
   branch |-> 3, emit |-> << d.last_wp >>]

DebounceStep(d, light_wp, st) ==
  IF d.state /= st THEN Branch1(d, light_wp, st)
  ELSE IF CountReached(d.state_count) THEN Branch2(d, light_wp, st)
  ELSE Branch3(d, light_wp, st)

----------------------------------------------------------------------------
(* The observer *)

\* obs describes the camera frames seen so far; the program never reads it.
\*   first          : the first path delivered to waypoints_cb
\*   later          : a different path was delivered after the first
\*   seen           : a frame has arrived
\*   gap, busy, acc : the last frame to arrive came gap after last_image_time,
\*                    found processing_image = busy, and was accepted or not
\*   n              : the number of accepted frames
\*   missing        : the last accepted frame found the path (or, off site,
\*                    the pose) absent when it read it
\*   fault          : the classifier raised on the last accepted frame
\*   sel            : the index in the registry of the light the last accepted
\*                    frame selected, 0 if none qualified, -1 if it did not
\*                    scan the registry
\*   cls, sll       : the numbers of calls of the classifier and of the
\*                    stop-line search it made
\*   exc            : the exception that ended the last accepted frame, or ""
\*   raw            : the (waypoint, colour) pair it handed to the debounce
\*   branch, emit   : the debounce branch it took and the value it published
\*   prev, run      : the colour of the last raw reading and the number of
\*                    consecutive readings of that colour up to it
\*   w              : the waypoint of the first reading
\*   red            : k if all k accepted frames so far read RED with
\*                    waypoint w, else -1
\*   scn            : k if the k accepted frames so far read the first k of
\*                    RED GREEN RED RED RED RED, the RED ones with waypoint w,
\*                    else -1
Scenario == << RED, GREEN, RED, RED, RED, RED >>

ObsInit ==
  [first |-> None, later |-> FALSE,
   seen |-> FALSE, gap |-> 0, busy |-> FALSE, acc |-> FALSE, n |-> 0,
   missing |-> FALSE, fault |-> FALSE, sel |-> -1, cls |-> 0, sll |-> 0,
   exc |-> "", raw |-> None, branch |-> 0, emit |-> None,
   prev |-> None, run |-> 0, w |-> None, red |-> 0, scn |-> 0]

ObsArrive(o, gap, busy, acc) ==
  IF acc
    THEN [o EXCEPT !.seen = TRUE,
                   !.gap = gap, !.busy = busy, !.acc = TRUE, !.n = o.n + 1,
                   !.missing = FALSE, !.fault = FALSE,
                   !.sel = -1, !.cls = 0, !.sll = 0,
                   !.exc = "", !.raw = None, !.branch = 0, !.emit = None]
    ELSE [o EXCEPT !.seen = TRUE, !.gap = gap, !.busy = busy, !.acc = FALSE]

ObsLane(o, msg) ==
  IF o.first = None
    THEN [o EXCEPT !.first = Some(msg)]
    ELSE [o EXCEPT !.later = o.later \/ (msg /= o.first[1])]

ObsCalls(o, c) ==
  [o EXCEPT !.sel = c.sel, !.cls = c.cls, !.sll = c.sll]

ObsRaise(o, e) ==
  [o EXCEPT !.exc = e, !.fault = (e = "ClassifierError"), !.red = -1, !.scn = -1]

ObsAbsent(o, absent) ==
  [o EXCEPT !.missing = o.missing \/ absent]

ObsDebounce(o, light_wp, st, branch, emit) ==
  LET w == IF o.prev = None /\ o.n = 1 THEN Some(light_wp) ELSE o.w
      sameW == (st = RED) => (w = Some(light_wp))
  IN [o EXCEPT !.raw = Some(<<light_wp, st>>),
               !.branch = branch, !.emit = emit,
               !.prev = Some(st),
               !.run = IF o.prev = Some(st) THEN o.run + 1 ELSE 1,
               !.w = w,
               !.red = IF o.red = o.n - 1 /\ st = RED /\ sameW
                         THEN o.n ELSE -1,
               !.scn = IF o.scn = o.n - 1 /\ o.n <= Len(Scenario)
                          /\ st = Scenario[o.n] /\ sameW
                         THEN o.n ELSE -1]

----------------------------------------------------------------------------
(* Initial state: TLDetector.__init__ *)

LocInit == [theta |-> 0, x |-> 0, y |-> 0, light_wp |-> NO_WP, st |-> UNKNOWN]

Init ==
  /\ now = 0
  /\ site \in BOOLEAN
  /\ pose = None
  /\ waypoints = None
  /\ got_waypoints = FALSE
  /\ lights = << >>
  /\ camera_image = None
  /\ has_image = None
  /\ last_image_time = now
  /\ processing_image = FALSE
  /\ state = UNKNOWN
  /\ last_state = UNKNOWN
  /\ last_wp = -1
  /\ state_count = 0
  /\ pc = "idle"
  /\ loc = LocInit
  /\ obs = ObsInit

----------------------------------------------------------------------------
(* The clock and the store callbacks *)

Tick ==
  /\ now < MaxTime
  /\ now - last_image_time < MaxGap
  /\ now' = now + 1
  /\ UNCHANGED <<site, stores, adapter, debounce, pc, loc, obs>>

pose_cb(msg) ==
  /\ pose' = Some(msg)
  /\ UNCHANGED <<now, site, waypoints, got_waypoints, lights, adapter,
                 debounce, pc, loc, obs>>

\* waypoints_cb without the test of got_waypoints
waypoints_cb_always(msg) ==
  /\ waypoints' = Some(msg) /\ got_waypoints' = TRUE
  /\ obs' = ObsLane(obs, msg)
  /\ UNCHANGED <<now, site, pose, lights, adapter, debounce, pc, loc>>

waypoints_cb(msg) ==
  /\ IF ~got_waypoints
       THEN waypoints' = Some(msg) /\ got_waypoints' = TRUE
       ELSE UNCHANGED <<waypoints, got_waypoints>>
  /\ obs' = ObsLane(obs, msg)
  /\ UNCHANGED <<now, site, pose, lights, adapter, debounce, pc, loc>>

traffic_cb(msg) ==
  /\ lights' = msg
  /\ UNCHANGED <<now, site, pose, waypoints, got_waypoints, adapter,
                 debounce, pc, loc, obs>>

----------------------------------------------------------------------------
(* image_cb, in the steps between which the other callbacks' threads run *)

\* an exception leaves image_cb; rospy logs it and the thread goes on.
\* absent: the exception comes from reading a store that holds None
AbortFrom(o, e, absent) ==
  /\ pc' = "idle"
  /\ loc' = LocInit
  /\ obs' = ObsRaise(ObsAbsent(o, absent), e)

Abort(e, absent) == AbortFrom(obs, e, absent)

\* image_cb storing the frame before the test of line 91
image_cb_store(msg) ==
  /\ pc = "idle"
  /\ LET now_time == now
         ok == Accepts(now_time, processing_image, last_image_time)
     IN /\ obs' = ObsArrive(obs, now_time - last_image_time, processing_image, ok)
        /\ camera_image' = Some(msg)
        /\ IF ok
             THEN /\ last_image_time' = now_time
                  /\ has_image' = Some(TRUE)
                  /\ pc' = "process_traffic_lights"
             ELSE UNCHANGED <<last_image_time, has_image, pc>>
  /\ UNCHANGED <<now, site, stores, processing_image, debounce, loc>>

\* lines 89-95
image_cb(msg) ==
  /\ pc = "idle"
  /\ LET now_time == now
         ok == Accepts(now_time, processing_image, last_image_time)
     IN /\ obs' = ObsArrive(obs, now_time - last_image_time, processing_image, ok)
        /\ IF ok
             THEN /\ last_image_time' = now_time
                  /\ has_image' = Some(TRUE)
                  /\ camera_image' = Some(msg)
                  /\ pc' = "process_traffic_lights"
             ELSE UNCHANGED <<last_image_time, has_image, camera_image, pc>>
  /\ UNCHANGED <<now, site, stores, processing_image, debounce, loc>>

\* lines 189-194 and, on site, 242-254; line 100 unpacks the result
process_traffic_lights ==
  /\ pc = "process_traffic_lights"
  /\ IF waypoints = None
       THEN Abort("TypeError", TRUE)          \* returns None, which line 100 cannot unpack
       ELSE IF ~site
         THEN pc' = "orientation" /\ UNCHANGED <<loc, obs>>
         ELSE LET r == SiteLight(waypoints, has_image, camera_image)
                  o == ObsCalls(obs, SiteCalls(waypoints, has_image, camera_image))
              IN IF r.exc /= ""
                   THEN AbortFrom(o, r.exc, FALSE)
                   ELSE /\ pc' = "debounce"
                        /\ loc' = [loc EXCEPT !.light_wp = r.val[1], !.st = r.val[2]]
                        /\ obs' = o
  /\ UNCHANGED <<now, site, stores, adapter, debounce>>

\* lines 196-197
read_orientation ==
  /\ pc = "orientation"
  /\ IF pose = None
       THEN Abort("AttributeError", TRUE)
       ELSE /\ loc' = [loc EXCEPT !.theta = pose[1].yaw]
            /\ pc' = "x"
            /\ UNCHANGED obs
  /\ UNCHANGED <<now, site, stores, adapter, debounce>>

\* lines 198-199
read_x ==
  /\ pc = "x"
  /\ loc' = [loc EXCEPT !.x = pose[1].x]
  /\ pc' = "y"
  /\ UNCHANGED <<now, site, stores, adapter, debounce, obs>>

\* lines 200-201
read_y ==
  /\ pc = "y"
  /\ loc' = [loc EXCEPT !.y = pose[1].y]
  /\ pc' = "lights"
  /\ UNCHANGED <<now, site, stores, adapter, debounce, obs>>

\* lines 203-254; line 100 unpacks the result
scan_lights ==
  /\ pc = "lights"
  /\ LET r == ScanLights(lights, loc.x, loc.y, loc.theta, waypoints,
                         has_image, camera_image)
         o == ObsCalls(obs, ScanCalls(lights, loc.x, loc.y, loc.theta,
                                      has_image, camera_image))
     IN IF r.exc /= ""
          THEN AbortFrom(o, r.exc, FALSE)
          ELSE /\ pc' = "debounce"
               /\ loc' = [loc EXCEPT !.light_wp = r.val[1], !.st = r.val[2]]
               /\ obs' = o
  /\ UNCHANGED <<now, site, stores, adapter, debounce>>

\* lines 111-125
debounce_step ==
  /\ pc = "debounce"
  /\ LET d == [state |-> state, state_count |-> state_count,
               last_state |-> last_state, last_wp |-> last_wp]
         r == DebounceStep(d, loc.light_wp, loc.st)
     IN /\ state' = r.state
        /\ state_count' = r.state_count
        /\ last_state' = r.last_state
        /\ last_wp' = r.last_wp
        /\ obs' = ObsDebounce(obs, loc.light_wp, loc.st, r.branch, r.emit)
  /\ pc' = "idle"
  /\ loc' = LocInit
  /\ UNCHANGED <<now, site, stores, adapter>>

Next ==
  \/ Tick
  \/ \E msg \in PoseMsgs : pose_cb(msg)
  \/ \E msg \in LaneMsgs : waypoints_cb(msg)
  \/ \E msg \in LightMsgs : traffic_cb(msg)
  \/ \E msg \in Frames : image_cb(msg)
  \/ process_traffic_lights
  \/ read_orientation
  \/ read_x
  \/ read_y
  \/ scan_lights
  \/ debounce_step

Spec == Init /\ [][Next]_vars

----------------------------------------------------------------------------
(* The debounce: claims C1 - C5 *)

\* the last accepted frame has gone through the debounce
FrameDone == pc = "idle" /\ obs.n >= 1 /\ obs.raw /= None

\* C1: the published waypoint, and last_wp, is non-negative only while
\* last_state is RED; whenever last_state is not RED, last_wp and every
\* value a frame publishes are the "no stop" value -1.
C1_PublishedOnlyWhileRed ==
  /\ last_wp >= 0 => last_state = RED
  /\ last_state /= RED => last_wp = NO_WP
  /\ \A i \in 1..Len(obs.emit) :
       /\ obs.emit[i] >= 0 => last_state = RED
       /\ last_state /= RED => obs.emit[i] = NO_WP

\* a frame has published a waypoint index while RED is confirmed
C1_Witness ==
  /\ FrameDone
  /\ obs.branch = 2
  /\ obs.emit /= << >> /\ obs.emit[1] >= 0
  /\ last_wp = obs.emit[1]
  /\ last_state = RED

\* C2: a frame changes last_wp or last_state, or publishes a value other
\* than the last published one, only if its raw colour is that of the
\* STATE_COUNT_THRESHOLD readings before it (a run of at least
\* STATE_COUNT_THRESHOLD + 1 identical readings ends at it).
C2_NoFlipBeforeStable ==
  [][ ( \/ last_wp' /= last_wp
        \/ last_state' /= last_state
        \/ (pc = "debounce" /\ pc' = "idle" /\ \E i \in 1..Len(obs'.emit) : obs'.emit[i] /= last_wp) )
      => ( /\ obs'.run >= STATE_COUNT_THRESHOLD + 1
           /\ obs.run >= STATE_COUNT_THRESHOLD
           /\ obs.prev = << loc.st >> ) ]_vars

\* the published value has flipped on the frame that ends a run of exactly
\* STATE_COUNT_THRESHOLD + 1 readings of a colour other than the confirmed one
C2_Witness ==
  /\ FrameDone
  /\ obs.branch = 2
  /\ obs.run = STATE_COUNT_THRESHOLD + 1
  /\ last_state = RED
  /\ last_wp >= 0

\* C3: from a fresh detector, while every accepted frame has read RED with
\* the same waypoint w, each of the first 3 frames publishes nothing or -1,
\* and the 4th and every later frame publishes w.
C3_AllRedFromFresh ==
  (obs.red >= 1 /\ obs.red = obs.n) =>
     IF obs.red <= 3
       THEN obs.emit \in { << >>, << NO_WP >> }
       ELSE obs.emit = obs.w

\* the 4th frame and a later one have published w
C3_Witness ==
  /\ obs.red = 5 /\ obs.red = obs.n
  /\ obs.w /= None /\ obs.w[1] >= 0
  /\ obs.emit = obs.w
  /\ last_wp = obs.w[1]

\* C4: on the readings RED GREEN RED RED RED RED with waypoint w from a
\* fresh detector, w is not published and not confirmed before the 6th
\* frame, the third RED frame after the one that reset the counter last; and
\* no frame confirms a value (takes the branch of lines 115-122) unless it
\* ends a run of more than STATE_COUNT_THRESHOLD readings of one colour.
C4_ResetDelaysConfirmation ==
  /\ (obs.scn >= 1 /\ obs.scn = obs.n /\ obs.scn < Len(Scenario)) =>
        /\ last_wp = NO_WP
        /\ last_state = UNKNOWN
        /\ obs.emit \in { << >>, << NO_WP >> }
  /\ (obs.scn = 3 /\ obs.n = 3) => state_count = 1
  /\ (FrameDone /\ obs.branch = 2) => obs.run > STATE_COUNT_THRESHOLD

\* the 6th frame of the scenario has published w
C4_Witness ==
  /\ obs.scn = Len(Scenario) /\ obs.n = Len(Scenario)
  /\ obs.w /= None /\ obs.w[1] >= 0
  /\ obs.emit = obs.w
  /\ obs.branch = 2

\* C5: a frame whose raw colour differs from state publishes nothing, sets
\* state to the raw colour and leaves state_count at 0 + 1; a frame whose
\* raw colour equals state publishes exactly one value, and below the
\* threshold that value is last_wp, which it leaves unchanged.
C5_EmissionPerBranch ==
  [][ (pc = "debounce" /\ pc' = "idle") =>
        IF loc.st /= state
          THEN /\ obs'.branch = 1
               /\ obs'.emit = << >>
               /\ state' = loc.st
               /\ state_count' = 1
               /\ last_wp' = last_wp /\ last_state' = last_state
          ELSE /\ obs'.branch \in {2, 3}
               /\ Len(obs'.emit) = 1
               /\ state' = state
               /\ state_count' = state_count + 1
               /\ (obs'.branch = 3) <=> (state_count < STATE_COUNT_THRESHOLD)
               /\ obs'.branch = 3 =>
                    /\ obs'.emit = << last_wp >>
                    /\ last_wp' = last_wp /\ last_state' = last_state ]_vars

\* a frame of a new colour has published nothing, after a waypoint was
\* confirmed and the counter had passed the threshold
C5_Witness ==
  /\ FrameDone
  /\ obs.branch = 1
  /\ obs.emit = << >>
  /\ state_count = 1
  /\ state /= last_state
  /\ last_wp >= 0

----------------------------------------------------------------------------
(* The rate limiter and the busy flag: claims C6, C7 *)

\* C6 as stated: a frame is accepted if and only if processing_image is
\* False and at least 0.1 time units have passed since last_image_time.
C6_AcceptedIffAtLeastPeriod ==
  obs.seen => (obs.acc <=> (obs.busy = FALSE /\ obs.gap >= IMAGE_PERIOD))

\* C6, amended: a frame is accepted if and only if processing_image is
\* False and more than 0.1 time units have passed since last_image_time (the
\* time of the last accepted frame, or of construction); every other frame
\* is dropped, so accepted frames are more than 0.1 time units apart.
C6_AcceptedIffMoreThanPeriod ==
  obs.seen => (obs.acc <=> (obs.busy = FALSE /\ obs.gap > IMAGE_PERIOD))

\* a frame arriving exactly 0.1 time units after an accepted one was dropped
C6_Witness ==
  /\ obs.seen /\ ~obs.acc
  /\ obs.n >= 1
  /\ obs.busy = FALSE
  /\ obs.gap = IMAGE_PERIOD

\* C7: while image_cb works on an accepted frame (from acceptance to the
\* end of the debounce, the classifier call included) processing_image is
\* True.
C7_BusyWhileProcessing ==
  pc /= "idle" => processing_image = TRUE

----------------------------------------------------------------------------
(* Missing inputs and failures: claims C8 - C10 *)

\* C8: a frame that finds the path absent, or off site the pose absent,
\* ends without an exception, having handed (-1, no-light colour) to the
\* debounce, which processed it.
C8_MissingInputReportsNoLight ==
  (pc = "idle" /\ obs.n >= 1 /\ obs.missing) =>
     /\ obs.exc = ""
     /\ obs.raw = << << NO_WP, NO_LIGHT_STATE >> >>
     /\ obs.branch \in 1..3

\* C9: a frame on which the classifier raised ends without an exception,
\* having handed the colour UNKNOWN to the debounce, which processed it.
C9_ClassifierFaultIsUnknown ==
  (pc = "idle" /\ obs.n >= 1 /\ obs.fault) =>
     /\ obs.exc = ""
     /\ obs.raw /= None /\ obs.raw[1][2] = UNKNOWN
     /\ obs.branch \in 1..3

\* the points get_closest_waypoint is asked about: the stop lines, the site
\* stop coordinate, the origin and a point 2e6 distance units away
FarPoint == Pt(20000000, 0)

QueryPoints ==
  { stop_line_positions[i] : i \in 1..Len(stop_line_positions) }
    \cup { SITE_STOP, Pt(0, 0), FarPoint }

\* C10: with a path of at least one waypoint stored, get_closest_waypoint
\* returns for every point an index i with 0 <= i < len(path); with no path
\* stored it returns None.
C10_IndexInRange ==
  \A q \in QueryPoints :
    LET r == get_closest_waypoint(waypoints, q)
    IN IF waypoints = None
         THEN r = Return(None)
         ELSE Len(waypoints[1]) >= 1 =>
                /\ r.exc = ""
                /\ r.val /= None
                /\ r.val[1] \in 0..(Len(waypoints[1]) - 1)

----------------------------------------------------------------------------
(* get_closest_waypoint: claims C11, C16 *)

\* the points of C10 and one beside the second waypoint of PathA
ProbePoints == QueryPoints \cup { Pt(400, 50) }

\* per-axis differences of waypoint k (1-based) of path wps to point q
DiffX(wps, k, q) == Abs(q.x - wps[k].x)
DiffY(wps, k, q) == Abs(q.y - wps[k].y)

\* C11: whenever get_closest_waypoint returns an index, no other waypoint
\* of the stored path is strictly nearer to the point, in Euclidean
\* distance, than the waypoint returned.
C11_EuclideanClosest ==
  \A q \in ProbePoints :
    LET r == get_closest_waypoint(waypoints, q)
    IN (waypoints /= None /\ r.exc = "" /\ r.val /= None) =>
         LET wps == waypoints[1]
             i == r.val[1] + 1
         IN \A k \in 1..Len(wps) :
              ~ ( DistSq(wps[k].x, wps[k].y, q.x, q.y)
                    < DistSq(wps[i].x, wps[i].y, q.x, q.y) )

----------------------------------------------------------------------------
(* The path store: claim C12 *)

\* C12: the stored path is the first path delivered, whatever was delivered
\* after it and whatever else happened; before the first delivery nothing
\* is stored.
C12_FirstPathWins ==
  /\ waypoints = obs.first
  /\ got_waypoints <=> (waypoints /= None)

\* a different path was delivered after the first, and frames were accepted
C12_Witness ==
  /\ obs.later
  /\ obs.n >= 1
  /\ waypoints /= None /\ waypoints = obs.first

----------------------------------------------------------------------------
(* The visibility selector: claims C13 - C15 *)

\* the directional product of the selector for a light, from the pose read
Product(light, x, y, theta) ==
  (FRONT_STEP * Cos(theta) + FRONT_STEP * Sin(theta))
    * ((light.x - x) + (light.y - y))

\* the least element of a set of indices, 0 if it is empty
FirstOf(S) == IF S = {} THEN 0 ELSE CHOOSE i \in S : \A j \in S : i <= j

\* the lights of ls within [25, 100] of (x, y), bounds included, and ahead
AheadWithin(ls, x, y, theta) ==
  { i \in 1..Len(ls) :
      /\ DistSq(ls[i].x, ls[i].y, x, y)
           >= min_look_ahead_distance * min_look_ahead_distance
      /\ DistSq(ls[i].x, ls[i].y, x, y)
           <= max_look_ahead_distance * max_look_ahead_distance
      /\ Product(ls[i], x, y, theta) > ORIENT_THRESHOLD }

\* the same with the bounds 25 and 100 excluded
AheadInside(ls, x, y, theta) ==
  { i \in 1..Len(ls) :
      /\ DistSq(ls[i].x, ls[i].y, x, y)
           > min_look_ahead_distance * min_look_ahead_distance
      /\ DistSq(ls[i].x, ls[i].y, x, y)
           < max_look_ahead_distance * max_look_ahead_distance
      /\ Product(ls[i], x, y, theta) > ORIENT_THRESHOLD }

\* the step of image_cb that scans the registry
ScanStep == pc = "lights" /\ pc' /= "lights"

C14_NoLightNoCalls ==
  /\ (~site /\ pc = "idle" /\ obs.n >= 1 /\ obs.sel = 0) =>
        /\ obs.exc = ""
        /\ obs.raw = << << NO_WP, NO_LIGHT_STATE >> >>
        /\ obs.cls = 0
        /\ obs.sll = 0
  /\ (~site /\ obs.sel >= 1) => obs.cls = 1
  /\ obs.sll >= 1 => obs.sel >= 1

\* off site, a frame found lights in the registry, none of which qualified
C14_Witness ==
  /\ ~site /\ pc = "idle" /\ obs.n >= 1
  /\ obs.sel = 0
  /\ lights /= << >>
  /\ pose /= None /\ pose[1].yaw = 2
  /\ obs.raw = << << NO_WP, NO_LIGHT_STATE >> >>
  /\ obs.cls = 0

\* C15: on site, a frame that finds a path stored hands to the debounce the
\* waypoint nearest to the fixed stop coordinate, never the no-light
\* result, and calls the classifier exactly once.
C15_SiteAlwaysSelects ==
  (site /\ pc = "idle" /\ obs.n >= 1 /\ ~obs.missing) =>
     /\ obs.exc = ""
     /\ obs.raw /= None
     /\ obs.raw[1][1] >= 0
     /\ obs.raw[1] /= << NO_WP, NO_LIGHT_STATE >>
     /\ obs.cls = 1

----------------------------------------------------------------------------
(* The stop-line search: claim C17 *)

\* stop-line tables: the configured one, one with two entries at the same
\* distance from LightNear, and one whose only entry is 2e6 away
TieTable == << Pt(600, 0), Pt(450, 50), Pt(550, 50) >>
FarTable == << Pt(20000000, 0) >>
StopLineTables == { stop_line_positions, TieTable, FarTable }

\* a is strictly nearer to light than b (at most one of a, b is 1e6 or more
\* away on an axis)
Nearer(light, a, b) ==
  IF Far(light, a) THEN FALSE
  ELSE IF Far(light, b) THEN TRUE
  ELSE DistSq(light.x, light.y, a.x, a.y) < DistSq(light.x, light.y, b.x, b.y)

\* C17: for every non-empty table and every light of the registry, the
\* coordinate the stop-line search passes to get_closest_waypoint is the
\* entry of the table at minimum Euclidean distance from the light, the
\* first such entry if several are at that distance.
C17_NearestStopLine ==
  \A t \in StopLineTables : \A i \in 1..Len(lights) :
    LET e == StopLineLoop(t, lights[i], 1, None, Pt(0, 0))
    IN \E k \in 1..Len(t) :
         /\ e = t[k]
         /\ \A j \in 1..Len(t) : ~ Nearer(lights[i], t[j], t[k])
         /\ \A j \in 1..(k - 1) : Nearer(lights[i], t[k], t[j])

----------------------------------------------------------------------------
(* Dropped frames, the first frame, the pose snapshot: claims C18 - C20 *)

\* a step that records the arrival of a frame that was not accepted
DropStep ==
  /\ obs'.seen /\ ~obs'.acc
  /\ << obs'.seen, obs'.gap, obs'.acc >> /= << obs.seen, obs.gap, obs.acc >>

\* C18: a frame that is not accepted changes neither last_image_time, the
\* stored image, state, state_count, last_state and last_wp nor anything
\* else of the detector; it publishes nothing, calls no classifier and does
\* not start image processing.
C18_DropChangesNothing ==
  [][ DropStep =>
        /\ UNCHANGED << now, site, stores, adapter, debounce, pc, loc >>
        /\ pc = "idle"
        /\ obs'.emit = obs.emit /\ obs'.raw = obs.raw /\ obs'.branch = obs.branch
        /\ obs'.cls = obs.cls /\ obs'.sll = obs.sll /\ obs'.n = obs.n ]_vars

\* a frame was dropped after a frame was stored and a value published
C18_Witness ==
  /\ obs.seen /\ ~obs.acc
  /\ obs.n >= 2
  /\ camera_image /= None
  /\ obs.emit /= << >>
  /\ state_count >= 1

\* C19: while no frame has been received, get_light_state returns a colour
\* that is none of RED, YELLOW, GREEN, without calling the classifier.
C19_NoFrameIsUnknown ==
  has_image = None =>
    LET r == get_light_state(has_image, camera_image)
    IN /\ r.exc = ""
       /\ r.val /= None
       /\ r.val[1] \notin {RED, YELLOW, GREEN}
       /\ ClassifierCalls(has_image) = 0

\* C20: the orientation, x and y with which a frame scans the registry are
\* those of one pose message.
C20_SinglePoseSnapshot ==
  pc = "lights" =>
    \E m \in PoseMsgs : loc.theta = m.yaw /\ loc.x = m.x /\ loc.y = m.y

====
